---- MODULE Spec2Model ----
(***************************************************************************)
(* The display's falling-block engine (TetrisGame): the GameState held in  *)
(* gameStateRef, the gravity timer held in dropIntervalRef, and the        *)
(* handlers that handleAction dispatches to.                               *)
(*                                                                         *)
(* Rows and columns are 0-based in the source and in piece.x / piece.y;    *)
(* the boards are TLA+ sequences, so cell (x, y) is board[y + 1][x + 1].   *)
(***************************************************************************)
EXTENDS Integers, Sequences, FiniteSets, TLC

COLS == 10
ROWS == 20

\* ---------------------------------------------------------------- bounds
\* randomPiece draws among the first NumShapes entries of SHAPES.
NumShapes == 2
\* Piece movements (shifts, rotations, descents, locks) explored per session.
MaxMoves == 2

NULL == "null"

SHAPES ==
  << [shape |-> << <<1, 1, 1, 1>> >>,               color |-> "#00f5ff"],
     [shape |-> << <<1, 1>>, <<1, 1>> >>,           color |-> "#ffd700"],
     [shape |-> << <<0, 1, 0>>, <<1, 1, 1>> >>,     color |-> "#a855f7"],
     [shape |-> << <<1, 0, 0>>, <<1, 1, 1>> >>,     color |-> "#ff6b2c"],
     [shape |-> << <<0, 0, 1>>, <<1, 1, 1>> >>,     color |-> "#3b82f6"],
     [shape |-> << <<1, 1, 0>>, <<0, 1, 1>> >>,     color |-> "#22c55e"],
     [shape |-> << <<0, 1, 1>>, <<1, 1, 0>> >>,     color |-> "#ef4444"] >>

\* The values Math.floor(Math.random() * SHAPES.length) + 1 the model draws.
ShapeChoices == {i \in 1..Len(SHAPES) : i <= NumShapes}

createEmptyBoard == [y \in 1..ROWS |-> [x \in 1..COLS |-> 0]]

createEmptyColorBoard == [y \in 1..ROWS |-> [x \in 1..COLS |-> NULL]]

randomPiece(i) ==
  [shape |-> SHAPES[i].shape,
   color |-> SHAPES[i].color,
   x     |-> (COLS \div 2) - (Len(SHAPES[i].shape[1]) \div 2),
   y     |-> 0]

\* ------------------------------------------------------- pure helpers
\* collide testing the walls and the floor only, not the locked cells.
collide_WallsOnly(piece, board) ==
  \E dy \in 1..Len(piece.shape) :
    \E dx \in 1..Len(piece.shape[dy]) :
      /\ piece.shape[dy][dx] # 0
      /\ LET newX == piece.x + dx - 1
             newY == piece.y + dy - 1
         IN  \/ newX < 0
             \/ newX >= COLS
             \/ newY >= ROWS

collide(piece, board) ==
  \E dy \in 1..Len(piece.shape) :
    \E dx \in 1..Len(piece.shape[dy]) :
      /\ piece.shape[dy][dx] # 0
      /\ LET newX == piece.x + dx - 1
             newY == piece.y + dy - 1
         IN  \/ newX < 0
             \/ newX >= COLS
             \/ newY >= ROWS
             \/ (newY >= 0 /\ board[newY + 1][newX + 1] # 0)

\* TRUE iff the piece has an occupied cell at board cell (x, y) with y >= 0.
Covers(piece, x, y) ==
  LET dy == y - piece.y + 1
      dx == x - piece.x + 1
  IN  /\ y >= 0
      /\ dy \in 1..Len(piece.shape)
      /\ dx \in 1..Len(piece.shape[dy])
      /\ piece.shape[dy][dx] # 0

\* merge writing the board and leaving the colour board alone.
merge_Uncoloured(piece, board, boardColors) ==
  [board       |-> [r \in 1..ROWS |-> [c \in 1..COLS |->
                      IF Covers(piece, c - 1, r - 1) THEN 1 ELSE board[r][c]]],
   boardColors |-> boardColors]

merge(piece, board, boardColors) ==
  [board       |-> [r \in 1..ROWS |-> [c \in 1..COLS |->
                      IF Covers(piece, c - 1, r - 1) THEN 1 ELSE board[r][c]]],
   boardColors |-> [r \in 1..ROWS |-> [c \in 1..COLS |->
                      IF Covers(piece, c - 1, r - 1) THEN piece.color
                      ELSE boardColors[r][c]]]]

\* splice(y, 1) followed by unshift(fresh): row y (0-based) removed, a fresh
\* row put on top.
SpliceUnshift(rows, y, fresh) ==
  [r \in 1..Len(rows) |->
     IF r = 1 THEN fresh ELSE IF r <= y + 1 THEN rows[r - 1] ELSE rows[r]]

\* clearLines without the y++ after a splice: the row that moved down into
\* place y is not looked at.
RECURSIVE clearLinesFrom_NoRecheck(_, _, _, _)
clearLinesFrom_NoRecheck(board, boardColors, y, linesCleared) ==
  IF y < 0
  THEN [board |-> board, boardColors |-> boardColors, linesCleared |-> linesCleared]
  ELSE IF \A x \in 1..COLS : board[y + 1][x] # 0
       THEN clearLinesFrom_NoRecheck(SpliceUnshift(board, y, [x \in 1..COLS |-> 0]),
                                     SpliceUnshift(boardColors, y, [x \in 1..COLS |-> NULL]),
                                     y - 1, linesCleared + 1)
       ELSE clearLinesFrom_NoRecheck(board, boardColors, y - 1, linesCleared)

\* clearLines splicing the board only: the colour board keeps its rows.
RECURSIVE clearLinesFrom_BoardOnly(_, _, _, _)
clearLinesFrom_BoardOnly(board, boardColors, y, linesCleared) ==
  IF y < 0
  THEN [board |-> board, boardColors |-> boardColors, linesCleared |-> linesCleared]
  ELSE IF \A x \in 1..COLS : board[y + 1][x] # 0
       THEN clearLinesFrom_BoardOnly(SpliceUnshift(board, y, [x \in 1..COLS |-> 0]),
                                     boardColors, y, linesCleared + 1)
       ELSE clearLinesFrom_BoardOnly(board, boardColors, y - 1, linesCleared)

RECURSIVE clearLinesFrom(_, _, _, _)
clearLinesFrom(board, boardColors, y, linesCleared) ==
  IF y < 0
  THEN [board |-> board, boardColors |-> boardColors, linesCleared |-> linesCleared]
  ELSE IF \A x \in 1..COLS : board[y + 1][x] # 0
       THEN clearLinesFrom(SpliceUnshift(board, y, [x \in 1..COLS |-> 0]),
                           SpliceUnshift(boardColors, y, [x \in 1..COLS |-> NULL]),
                           y, linesCleared + 1)
       ELSE clearLinesFrom(board, boardColors, y - 1, linesCleared)

clearLines(board, boardColors) ==
  clearLinesFrom(board, boardColors, ROWS - 1, 0)

Max(a, b) == IF a >= b THEN a ELSE b

\* Math.max(100, 700 - (level - 1) * 50)
speed(level) == Max(100, 700 - (level - 1) * 50)

linePoints == <<0, 100, 300, 500, 800>>

\* ------------------------------------------------------------ timers
\* A display value d is [gs, dropIntervalRef, timers]: the GameState, the
\* id held in dropIntervalRef (0 for null) and the set of live intervals,
\* each [id, ms], every one of which calls drop when it fires.
FreshId(timers) ==
  CHOOSE i \in 1..(Cardinality(timers) + 1) : \A t \in timers : t.id # i

clearInterval(timers, id) == {t \in timers : t.id # id}

\* dropIntervalRef.current = window.setInterval(drop, ms)
setInterval(d, ms) ==
  LET id == FreshId(d.timers)
  IN  [d EXCEPT !.timers = @ \cup {[id |-> id, ms |-> ms]},
                !.dropIntervalRef = id]

\* ---------------------------------------------------------- handlers
\* drop adding the cleared lines without recomputing the level.
drop_StaleLevel(d, r) ==
  LET state == d.gs
  IN
  IF state.isPaused \/ state.isGameOver THEN d
  ELSE
    LET newPiece == [state.piece EXCEPT !.y = @ + 1]
    IN
    IF collide(newPiece, state.board)
    THEN
      IF state.piece.y <= 0
      THEN [d EXCEPT !.gs.isGameOver = TRUE,
                     !.timers = IF d.dropIntervalRef # 0
                                THEN clearInterval(@, d.dropIntervalRef) ELSE @,
                     !.dropIntervalRef = 0]
      ELSE
        LET m      == merge(state.piece, state.board, state.boardColors)
            c      == clearLines(m.board, m.boardColors)
            n      == c.linesCleared
            score1 == IF n > 0 THEN state.score + linePoints[n + 1] * state.level
                      ELSE state.score
            lines1 == IF n > 0 THEN state.lines + n ELSE state.lines
            d1     == [d EXCEPT !.gs = [state EXCEPT
                                          !.board       = c.board,
                                          !.boardColors = c.boardColors,
                                          !.score       = score1,
                                          !.lines       = lines1,
                                          !.piece       = state.nextPiece,
                                          !.nextPiece   = randomPiece(r)]]
        IN
        IF n > 0 /\ d.dropIntervalRef # 0
        THEN setInterval([d1 EXCEPT !.timers = clearInterval(@, d.dropIntervalRef)],
                         speed(state.level))
        ELSE d1
    ELSE [d EXCEPT !.gs.piece = newPiece]

\* drop without the game-over branch: a piece blocked at spawn stays.
drop_NoGameOver(d, r) ==
  LET state == d.gs
  IN
  IF state.isPaused \/ state.isGameOver THEN d
  ELSE
    LET newPiece == [state.piece EXCEPT !.y = @ + 1]
    IN
    IF collide(newPiece, state.board)
    THEN
      IF state.piece.y <= 0
      THEN d
      ELSE
        LET m      == merge(state.piece, state.board, state.boardColors)
            c      == clearLines(m.board, m.boardColors)
            n      == c.linesCleared
            score1 == IF n > 0 THEN state.score + linePoints[n + 1] * state.level
                      ELSE state.score
            lines1 == IF n > 0 THEN state.lines + n ELSE state.lines
            level1 == IF n > 0 THEN (lines1 \div 10) + 1 ELSE state.level
            d1     == [d EXCEPT !.gs = [state EXCEPT
                                          !.board       = c.board,
                                          !.boardColors = c.boardColors,
                                          !.score       = score1,
                                          !.lines       = lines1,
                                          !.level       = level1,
                                          !.piece       = state.nextPiece,
                                          !.nextPiece   = randomPiece(r)]]
        IN
        IF n > 0 /\ d.dropIntervalRef # 0
        THEN setInterval([d1 EXCEPT !.timers = clearInterval(@, d.dropIntervalRef)],
                         speed(level1))
        ELSE d1
    ELSE [d EXCEPT !.gs.piece = newPiece]

\* drop paying the line points at the level reached by the lock.
drop_NewLevelPoints(d, r) ==
  LET state == d.gs
  IN
  IF state.isPaused \/ state.isGameOver THEN d
  ELSE
    LET newPiece == [state.piece EXCEPT !.y = @ + 1]
    IN
    IF collide(newPiece, state.board)
    THEN
      IF state.piece.y <= 0
      THEN [d EXCEPT !.gs.isGameOver = TRUE,
                     !.timers = IF d.dropIntervalRef # 0
                                THEN clearInterval(@, d.dropIntervalRef) ELSE @,
                     !.dropIntervalRef = 0]
      ELSE
        LET m      == merge(state.piece, state.board, state.boardColors)
            c      == clearLines(m.board, m.boardColors)
            n      == c.linesCleared
            lines1 == IF n > 0 THEN state.lines + n ELSE state.lines
            level1 == IF n > 0 THEN (lines1 \div 10) + 1 ELSE state.level
            score1 == IF n > 0 THEN state.score + linePoints[n + 1] * level1
                      ELSE state.score
            d1     == [d EXCEPT !.gs = [state EXCEPT
                                          !.board       = c.board,
                                          !.boardColors = c.boardColors,
                                          !.score       = score1,
                                          !.lines       = lines1,
                                          !.level       = level1,
                                          !.piece       = state.nextPiece,
                                          !.nextPiece   = randomPiece(r)]]
        IN
        IF n > 0 /\ d.dropIntervalRef # 0
        THEN setInterval([d1 EXCEPT !.timers = clearInterval(@, d.dropIntervalRef)],
                         speed(level1))
        ELSE d1
    ELSE [d EXCEPT !.gs.piece = newPiece]

\* drop ending the run when the blocked piece is on row 1 as well.
drop_OverAtRowOne(d, r) ==
  LET state == d.gs
  IN
  IF state.isPaused \/ state.isGameOver THEN d
  ELSE
    LET newPiece == [state.piece EXCEPT !.y = @ + 1]
    IN
    IF collide(newPiece, state.board)
    THEN
      IF state.piece.y <= 1
      THEN [d EXCEPT !.gs.isGameOver = TRUE,
                     !.timers = IF d.dropIntervalRef # 0
                                THEN clearInterval(@, d.dropIntervalRef) ELSE @,
                     !.dropIntervalRef = 0]
      ELSE
        LET m      == merge(state.piece, state.board, state.boardColors)
            c      == clearLines(m.board, m.boardColors)
            n      == c.linesCleared
            score1 == IF n > 0 THEN state.score + linePoints[n + 1] * state.level
                      ELSE state.score
            lines1 == IF n > 0 THEN state.lines + n ELSE state.lines
            level1 == IF n > 0 THEN (lines1 \div 10) + 1 ELSE state.level
            d1     == [d EXCEPT !.gs = [state EXCEPT
                                          !.board       = c.board,
                                          !.boardColors = c.boardColors,
                                          !.score       = score1,
                                          !.lines       = lines1,
                                          !.level       = level1,
                                          !.piece       = state.nextPiece,
                                          !.nextPiece   = randomPiece(r)]]
        IN
        IF n > 0 /\ d.dropIntervalRef # 0
        THEN setInterval([d1 EXCEPT !.timers = clearInterval(@, d.dropIntervalRef)],
                         speed(level1))
        ELSE d1
    ELSE [d EXCEPT !.gs.piece = newPiece]

\* drop: the single-step descent, called by every live interval, by the
\* "softdrop" action and at the end of hardDrop. r is the shape randomPiece
\* draws if a piece locks.
drop(d, r) ==
  LET state == d.gs
  IN
  IF state.isPaused \/ state.isGameOver THEN d
  ELSE
    LET newPiece == [state.piece EXCEPT !.y = @ + 1]
    IN
    IF collide(newPiece, state.board)
    THEN
      IF state.piece.y <= 0
      THEN [d EXCEPT !.gs.isGameOver = TRUE,
                     !.timers = IF d.dropIntervalRef # 0
                                THEN clearInterval(@, d.dropIntervalRef) ELSE @,
                     !.dropIntervalRef = 0]
      ELSE
        LET m      == merge(state.piece, state.board, state.boardColors)
            c      == clearLines(m.board, m.boardColors)
            n      == c.linesCleared
            score1 == IF n > 0 THEN state.score + linePoints[n + 1] * state.level
                      ELSE state.score
            lines1 == IF n > 0 THEN state.lines + n ELSE state.lines
            level1 == IF n > 0 THEN (lines1 \div 10) + 1 ELSE state.level
            d1     == [d EXCEPT !.gs = [state EXCEPT
                                          !.board       = c.board,
                                          !.boardColors = c.boardColors,
                                          !.score       = score1,
                                          !.lines       = lines1,
                                          !.level       = level1,
                                          !.piece       = state.nextPiece,
                                          !.nextPiece   = randomPiece(r)]]
        IN
        IF n > 0 /\ d.dropIntervalRef # 0
        THEN setInterval([d1 EXCEPT !.timers = clearInterval(@, d.dropIntervalRef)],
                         speed(level1))
        ELSE d1
    ELSE [d EXCEPT !.gs.piece = newPiece]

\* move with the isPaused test left out of its guard.
move_IgnoresPause(d, dir) ==
  LET state == d.gs
  IN
  IF ~state.isRunning \/ state.isGameOver THEN d
  ELSE
    LET newPiece == [state.piece EXCEPT !.x = @ + dir]
    IN  IF ~collide(newPiece, state.board)
        THEN [d EXCEPT !.gs.piece = newPiece]
        ELSE d

\* move shifting the piece without testing the shifted placement.
move_NoCollide(d, dir) ==
  LET state == d.gs
  IN
  IF ~state.isRunning \/ state.isPaused \/ state.isGameOver THEN d
  ELSE [d EXCEPT !.gs.piece.x = @ + dir]

move(d, dir) ==
  LET state == d.gs
  IN
  IF ~state.isRunning \/ state.isPaused \/ state.isGameOver THEN d
  ELSE
    LET newPiece == [state.piece EXCEPT !.x = @ + dir]
    IN  IF ~collide(newPiece, state.board)
        THEN [d EXCEPT !.gs.piece = newPiece]
        ELSE d

\* shape[0].map((_, i) => shape.map((row) => row[i]).reverse())
rotated(shape) ==
  [i \in 1..Len(shape[1]) |->
     [j \in 1..Len(shape) |-> shape[Len(shape) - j + 1][i]]]

kickOffsets == <<-1, 1, -2, 2>>

\* rotate trying the kick by -1 before the placement at offset 0.
rotate_LeftFirst(d) ==
  LET state == d.gs
      offs  == <<-1, 0, 1, -2, 2>>
  IN
  IF ~state.isRunning \/ state.isPaused \/ state.isGameOver THEN d
  ELSE
    LET newPiece == [state.piece EXCEPT !.shape = rotated(@)]
        kicked(k) == [newPiece EXCEPT !.x = @ + offs[k]]
        fits     == {k \in 1..Len(offs) : ~collide(kicked(k), state.board)}
    IN  IF fits # {}
        THEN [d EXCEPT !.gs.piece =
                kicked(CHOOSE k \in fits : \A k2 \in fits : k <= k2)]
        ELSE d

\* rotate trying the kicks to the right before those to the left.
rotate_RightFirst(d) ==
  LET state == d.gs
      offs  == <<1, -1, 2, -2>>
  IN
  IF ~state.isRunning \/ state.isPaused \/ state.isGameOver THEN d
  ELSE
    LET newPiece == [state.piece EXCEPT !.shape = rotated(@)]
        kicked(k) == [newPiece EXCEPT !.x = @ + offs[k]]
        fits     == {k \in 1..Len(offs) : ~collide(kicked(k), state.board)}
    IN  IF ~collide(newPiece, state.board)
        THEN [d EXCEPT !.gs.piece = newPiece]
        ELSE IF fits # {}
             THEN [d EXCEPT !.gs.piece =
                     kicked(CHOOSE k \in fits : \A k2 \in fits : k <= k2)]
             ELSE d

rotate(d) ==
  LET state == d.gs
  IN
  IF ~state.isRunning \/ state.isPaused \/ state.isGameOver THEN d
  ELSE
    LET newPiece == [state.piece EXCEPT !.shape = rotated(@)]
        kicked(k) == [newPiece EXCEPT !.x = @ + kickOffsets[k]]
        fits     == {k \in 1..Len(kickOffsets) : ~collide(kicked(k), state.board)}
    IN  IF ~collide(newPiece, state.board)
        THEN [d EXCEPT !.gs.piece = newPiece]
        ELSE IF fits # {}
             THEN [d EXCEPT !.gs.piece =
                     kicked(CHOOSE k \in fits : \A k2 \in fits : k <= k2)]
             ELSE d

\* The hard-drop loop leaving the piece one row below the last free row.
RECURSIVE fall_Overshoots(_)
fall_Overshoots(state) ==
  IF collide([state.piece EXCEPT !.y = @ + 1], state.board)
  THEN [state EXCEPT !.piece.y = @ + 1]
  ELSE fall_Overshoots([state EXCEPT !.piece.y = @ + 1, !.score = @ + 2])

\* The hard-drop loop taking 2 points per row instead of giving them.
RECURSIVE fall_Deducts(_)
fall_Deducts(state) ==
  IF collide([state.piece EXCEPT !.y = @ + 1], state.board)
  THEN state
  ELSE fall_Deducts([state EXCEPT !.piece.y = @ + 1, !.score = @ - 2])

\* while (!collide({...piece, y: piece.y + 1}, board)) { piece.y++; score += 2 }
RECURSIVE fall(_)
fall(state) ==
  IF collide([state.piece EXCEPT !.y = @ + 1], state.board)
  THEN state
  ELSE fall([state EXCEPT !.piece.y = @ + 1, !.score = @ + 2])

\* hardDrop without its closing call of drop.
hardDrop_NoLock(d, r) ==
  LET state == d.gs
  IN
  IF ~state.isRunning \/ state.isPaused \/ state.isGameOver THEN d
  ELSE [d EXCEPT !.gs = fall(state)]

hardDrop(d, r) ==
  LET state == d.gs
  IN
  IF ~state.isRunning \/ state.isPaused \/ state.isGameOver THEN d
  ELSE drop([d EXCEPT !.gs = fall(state)], r)

\* startGame creating its interval without clearing the one it holds.
startGame_NoClear(d, r1, r2) ==
  LET state == d.gs
      fresh == IF state.isGameOver \/ ~state.isRunning
               THEN [state EXCEPT !.board       = createEmptyBoard,
                                  !.boardColors = createEmptyColorBoard,
                                  !.piece       = randomPiece(r1),
                                  !.nextPiece   = randomPiece(r2),
                                  !.score       = 0,
                                  !.lines       = 0,
                                  !.level       = 1,
                                  !.isGameOver  = FALSE,
                                  !.isPaused    = FALSE]
               ELSE state
  IN  setInterval([d EXCEPT !.gs = [fresh EXCEPT !.isRunning = TRUE,
                                                 !.isPaused  = FALSE]],
                  speed(fresh.level))

\* startGame beginning a fresh run whatever the flags are.
startGame_AlwaysFresh(d, r1, r2) ==
  LET state == d.gs
      fresh == [state EXCEPT !.board       = createEmptyBoard,
                             !.boardColors = createEmptyColorBoard,
                             !.piece       = randomPiece(r1),
                             !.nextPiece   = randomPiece(r2),
                             !.score       = 0,
                             !.lines       = 0,
                             !.level       = 1,
                             !.isGameOver  = FALSE,
                             !.isPaused    = FALSE]
      d1    == [d EXCEPT !.gs = [fresh EXCEPT !.isRunning = TRUE,
                                              !.isPaused  = FALSE],
                         !.timers = IF d.dropIntervalRef # 0
                                    THEN clearInterval(@, d.dropIntervalRef) ELSE @]
  IN  setInterval(d1, speed(fresh.level))

startGame(d, r1, r2) ==
  LET state == d.gs
      fresh == IF state.isGameOver \/ ~state.isRunning
               THEN [state EXCEPT !.board       = createEmptyBoard,
                                  !.boardColors = createEmptyColorBoard,
                                  !.piece       = randomPiece(r1),
                                  !.nextPiece   = randomPiece(r2),
                                  !.score       = 0,
                                  !.lines       = 0,
                                  !.level       = 1,
                                  !.isGameOver  = FALSE,
                                  !.isPaused    = FALSE]
               ELSE state
      d1    == [d EXCEPT !.gs = [fresh EXCEPT !.isRunning = TRUE,
                                              !.isPaused  = FALSE],
                         !.timers = IF d.dropIntervalRef # 0
                                    THEN clearInterval(@, d.dropIntervalRef) ELSE @]
  IN  setInterval(d1, speed(fresh.level))

\* pauseGame that pauses and never resumes.
pauseGame_NoResume(d) ==
  LET state == d.gs
  IN
  IF ~state.isRunning \/ state.isGameOver THEN d
  ELSE
    IF ~state.isPaused
    THEN [d EXCEPT !.gs.isPaused = TRUE,
                   !.timers = IF d.dropIntervalRef # 0
                              THEN clearInterval(@, d.dropIntervalRef) ELSE @,
                   !.dropIntervalRef = 0]
    ELSE d

\* pauseGame pausing without clearing the interval.
pauseGame_NoClear(d) ==
  LET state == d.gs
  IN
  IF ~state.isRunning \/ state.isGameOver THEN d
  ELSE
    IF ~state.isPaused
    THEN [d EXCEPT !.gs.isPaused = TRUE]
    ELSE setInterval([d EXCEPT !.gs.isPaused = FALSE], speed(state.level))

\* pauseGame with the isGameOver test left out of its guard.
pauseGame_IgnoresGameOver(d) ==
  LET state == d.gs
  IN
  IF ~state.isRunning THEN d
  ELSE
    IF ~state.isPaused
    THEN [d EXCEPT !.gs.isPaused = TRUE,
                   !.timers = IF d.dropIntervalRef # 0
                              THEN clearInterval(@, d.dropIntervalRef) ELSE @,
                   !.dropIntervalRef = 0]
    ELSE setInterval([d EXCEPT !.gs.isPaused = FALSE], speed(state.level))

\* pauseGame with the isRunning test left out of its guard.
pauseGame_IgnoresRunning(d) ==
  LET state == d.gs
  IN
  IF state.isGameOver THEN d
  ELSE
    IF ~state.isPaused
    THEN [d EXCEPT !.gs.isPaused = TRUE,
                   !.timers = IF d.dropIntervalRef # 0
                              THEN clearInterval(@, d.dropIntervalRef) ELSE @,
                   !.dropIntervalRef = 0]
    ELSE setInterval([d EXCEPT !.gs.isPaused = FALSE], speed(state.level))

pauseGame(d) ==
  LET state == d.gs
  IN
  IF ~state.isRunning \/ state.isGameOver THEN d
  ELSE
    IF ~state.isPaused
    THEN [d EXCEPT !.gs.isPaused = TRUE,
                   !.timers = IF d.dropIntervalRef # 0
                              THEN clearInterval(@, d.dropIntervalRef) ELSE @,
                   !.dropIntervalRef = 0]
    ELSE setInterval([d EXCEPT !.gs.isPaused = FALSE], speed(state.level))

\* restartGame without the isPaused reset.
restartGame_KeepsPaused(d, r1, r2) ==
  [d EXCEPT !.gs = [@ EXCEPT !.board       = createEmptyBoard,
                             !.boardColors = createEmptyColorBoard,
                             !.piece       = randomPiece(r1),
                             !.nextPiece   = randomPiece(r2),
                             !.score       = 0,
                             !.lines       = 0,
                             !.level       = 1,
                             !.isGameOver  = FALSE,
                             !.isRunning   = TRUE]]

restartGame(d, r1, r2) ==
  [d EXCEPT !.gs = [@ EXCEPT !.board       = createEmptyBoard,
                             !.boardColors = createEmptyColorBoard,
                             !.piece       = randomPiece(r1),
                             !.nextPiece   = randomPiece(r2),
                             !.score       = 0,
                             !.lines       = 0,
                             !.level       = 1,
                             !.isGameOver  = FALSE,
                             !.isPaused    = FALSE,
                             !.isRunning   = TRUE]]

\* handleAction paying a point for every soft drop.
handleAction_SoftDropPays(d, action, r1, r2) ==
  CASE action = "start"    -> startGame(d, r1, r2)
    [] action = "pause"    -> pauseGame(d)
    [] action = "restart"  -> restartGame(d, r1, r2)
    [] action = "left"     -> move(d, -1)
    [] action = "right"    -> move(d, 1)
    [] action = "rotate"   -> rotate(d)
    [] action = "drop"     -> hardDrop(d, r1)
    [] action = "softdrop" -> [drop(d, r1) EXCEPT !.gs.score = @ + 1]
    [] OTHER               -> d

\* handleAction with a default case that runs the gravity step.
handleAction_DefaultDrops(d, action, r1, r2) ==
  CASE action = "start"    -> startGame(d, r1, r2)
    [] action = "pause"    -> pauseGame(d)
    [] action = "restart"  -> restartGame(d, r1, r2)
    [] action = "left"     -> move(d, -1)
    [] action = "right"    -> move(d, 1)
    [] action = "rotate"   -> rotate(d)
    [] action = "drop"     -> hardDrop(d, r1)
    [] action = "softdrop" -> drop(d, r1)
    [] OTHER               -> drop(d, r1)

handleAction(d, action, r1, r2) ==
  CASE action = "start"    -> startGame(d, r1, r2)
    [] action = "pause"    -> pauseGame(d)
    [] action = "restart"  -> restartGame(d, r1, r2)
    [] action = "left"     -> move(d, -1)
    [] action = "right"    -> move(d, 1)
    [] action = "rotate"   -> rotate(d)
    [] action = "drop"     -> hardDrop(d, r1)
    [] action = "softdrop" -> drop(d, r1)
    [] OTHER               -> d

\* ------------------------------------------------------------- state
VARIABLES
  gs,               \* gameStateRef.current
  dropIntervalRef,  \* dropIntervalRef.current: a timer id, 0 for null
  timers,           \* the live intervals created by window.setInterval(drop, ms)
  last,             \* the handler that ran last (history)
  moves,            \* piece movements made so far (bounded by MaxMoves)
  up,               \* per peer: "control" events its socket emitted, not yet handled by the relay
  down,             \* per peer: "control" events the relay emitted to it, not yet dispatched
  connected,        \* the peers whose socket is connected to the relay
  chan,             \* { action } messages queued for the display's BroadcastChannel
  ctl,              \* the controller's isRunning / isPaused / isGameOver
  highScore,        \* the display's highScore
  stale,            \* the display's transport effect is due to re-run
  sentLog,          \* the actions the controller dispatched (history)
  appliedLog,       \* the actions the display applied on receipt (history)
  snap              \* gameState messages queued for the controller's BroadcastChannel

netvars == <<up, down, connected, chan, ctl, highScore, stale, sentLog, appliedLog,
            snap>>

vars == <<gs, dropIntervalRef, timers, last, moves, netvars>>

\* The sockets this model follows: the controller's, the display's and the
\* one of a further device.
Peers == {"controller", "display", "viewer"}

\* Both pages just mounted, no socket connected yet, no high score stored.
NetInit ==
  /\ up = [p \in Peers |-> <<>>]
  /\ down = [p \in Peers |-> <<>>]
  /\ connected = {}
  /\ chan = <<>>
  /\ ctl = [isRunning |-> FALSE, isPaused |-> FALSE, isGameOver |-> FALSE]
  /\ highScore = 0
  /\ stale = FALSE
  /\ sentLog = <<>>
  /\ appliedLog = <<>>
  /\ snap = <<>>

Display == [gs |-> gs, dropIntervalRef |-> dropIntervalRef, timers |-> timers]

\* The GameState gameStateRef is constructed with, for the two shapes drawn.
Constructed(i, j) ==
  [gs |-> [board       |-> createEmptyBoard,
           boardColors |-> createEmptyColorBoard,
           piece       |-> randomPiece(i),
           nextPiece   |-> randomPiece(j),
           score       |-> 0,
           lines       |-> 0,
           level       |-> 1,
           isRunning   |-> FALSE,
           isPaused    |-> FALSE,
           isGameOver  |-> FALSE],
   dropIntervalRef |-> 0,
   timers          |-> {}]

\* Rows top..ROWS-1 of columns left..right filled by locked SHAPES[1] pieces.
Stacked(top, left, right) ==
  [board       |-> [y \in 1..ROWS |-> [x \in 1..COLS |->
                      IF y - 1 >= top /\ x - 1 \in left..right THEN 1 ELSE 0]],
   boardColors |-> [y \in 1..ROWS |-> [x \in 1..COLS |->
                      IF y - 1 >= top /\ x - 1 \in left..right
                      THEN SHAPES[1].color ELSE NULL]]]

\* Reached from Constructed(1, 1) with no start: "softdrop" actions alone
\* (drop does not test isRunning) lock 4-wide pieces one after another at
\* their spawn columns 3..6, filling rows top..ROWS-1 of those columns; the
\* next 4-wide piece has just spawned and shape j is queued.
IdleStacked(top, j) ==
  LET b == Stacked(top, 3, 6)
  IN  [Constructed(1, j) EXCEPT !.gs.board = b.board,
                                !.gs.boardColors = b.boardColors]

\* Reached in a started run at level 1: twice, nine upright 4-long pieces fill
\* rows 16..19 of columns 0..8 and a tenth in column 9 clears four rows
\* (8 lines, 2 * 800 points, all descents by gravity); then thirty-six upright
\* pieces fill rows 4..19 of columns 0..8 with column 9 left open. The interval
\* was created by startGame and re-created by drop at each clear, at level 1.
\* The active 4-long piece is at spawn (upright = FALSE) or rotated and
\* shifted over the open column (upright = TRUE); shape j is queued.
Well(upright, j) ==
  LET b == Stacked(4, 0, 8)
      p == IF upright
           THEN [randomPiece(1) EXCEPT !.shape = rotated(@), !.x = COLS - 1]
           ELSE randomPiece(1)
  IN  [gs |-> [board       |-> b.board,
               boardColors |-> b.boardColors,
               piece       |-> p,
               nextPiece   |-> randomPiece(j),
               score       |-> 2 * linePoints[5],
               lines       |-> 8,
               level       |-> 1,
               isRunning   |-> TRUE,
               isPaused    |-> FALSE,
               isGameOver  |-> FALSE],
       dropIntervalRef |-> 1,
       timers          |-> {[id |-> 1, ms |-> speed(1)]}]

Seeds ==
  {Constructed(i, j) : i \in ShapeChoices, j \in ShapeChoices}
    \cup {IdleStacked(top, j) : top \in {1, 2}, j \in ShapeChoices}
    \cup {Well(u, j) : u \in BOOLEAN, j \in ShapeChoices}

Init ==
  /\ \E s \in Seeds :
       /\ gs = s.gs
       /\ dropIntervalRef = s.dropIntervalRef
       /\ timers = s.timers
  /\ last = "init"
  /\ moves = 0
  /\ NetInit

\* ----------------------------------------------------------- actions
\* The display becomes d after handler op ran; a call that changed the
\* GameState from a gameplay handler counts as a piece movement.
Becomes(d, op) ==
  /\ gs' = d.gs
  /\ dropIntervalRef' = d.dropIntervalRef
  /\ timers' = d.timers
  /\ moves' = IF /\ op \in {"left", "right", "rotate", "drop", "softdrop", "tick"}
                 /\ d.gs # gs
              THEN moves + 1 ELSE moves

\* handleAction(action), whichever way the action arrived; r1 and r2 are the
\* shapes randomPiece draws during the call (handlers that draw none ignore
\* them).
Receive(action, r1, r2) ==
  /\ last' = action
  /\ Becomes(handleAction(Display, action, r1, r2), action)
  /\ UNCHANGED netvars

Start ==
  /\ \E r1 \in ShapeChoices, r2 \in ShapeChoices : Receive("start", r1, r2)
  /\ last' = "start"

Pause ==
  /\ Receive("pause", 1, 1)
  /\ last' = "pause"

Restart ==
  /\ \E r1 \in ShapeChoices, r2 \in ShapeChoices : Receive("restart", r1, r2)
  /\ last' = "restart"

Left == moves < MaxMoves /\ Receive("left", 1, 1)

Right == moves < MaxMoves /\ Receive("right", 1, 1)

Rotate == moves < MaxMoves /\ Receive("rotate", 1, 1)

HardDrop ==
  /\ moves < MaxMoves
  /\ \E r \in ShapeChoices : Receive("drop", r, r)

SoftDrop ==
  /\ moves < MaxMoves
  /\ \E r \in ShapeChoices : Receive("softdrop", r, r)

\* Tags handleAction has no case for: the controller's D-pad sends these.
Unhandled ==
  /\ \E action \in {"up", "down"} : Receive(action, 1, 1)
  /\ last' \in {"up", "down"}

\* A live interval fires and calls drop.
Tick ==
  /\ moves < MaxMoves
  /\ timers # {}
  /\ last' = "tick"
  /\ \E r \in ShapeChoices : Becomes(drop(Display, r), "tick")
  /\ UNCHANGED netvars

Next ==
  \/ Start
  \/ Pause
  \/ Restart
  \/ Left
  \/ Right
  \/ Rotate
  \/ HardDrop
  \/ SoftDrop
  \/ Unhandled
  \/ Tick

Spec == Init /\ [][Next]_vars

\* running && !paused && !gameOver
Playing == gs.isRunning /\ ~gs.isPaused /\ ~gs.isGameOver

\* ------------------------------------------- how the seeds are reached
\* SpecIdle: the display as constructed, never started, receiving only
\* "softdrop" while randomPiece keeps drawing SHAPES[1]. Its behaviour passes
\* through IdleStacked(2, 1) and IdleStacked(1, 1).
InitIdle ==
  /\ gs = Constructed(1, 1).gs
  /\ dropIntervalRef = 0
  /\ timers = {}
  /\ last = "init"
  /\ moves = 0
  /\ NetInit

IdleSoftDrop ==
  /\ ~gs.isRunning
  /\ Receive("softdrop", 1, 1)

SpecIdle == InitIdle /\ [][IdleSoftDrop]_vars

\* SpecWell: the display as constructed, started once, with randomPiece
\* drawing SHAPES[1] and the player turning each piece upright, shifting it
\* over the lowest-numbered column of 0..8 still below the height aimed at
\* (4 rows until 8 lines are cleared, 16 rows after), or over column 9 when
\* there is none, and then leaving it to the gravity timer; once the level
\* has risen to 2 the player restarts, which ends the scenario. Its behaviour
\* passes through Well(FALSE, 1) and Well(TRUE, 1).
Height(c) == Cardinality({y \in 1..ROWS : gs.board[y][c + 1] # 0})

Aim == IF gs.lines < 8 THEN 4 ELSE 16

Low == {c \in 0..(COLS - 2) : Height(c) < Aim}

Target == IF Low = {} THEN COLS - 1 ELSE CHOOSE c \in Low : \A c2 \in Low : c <= c2

Upright == Len(gs.piece.shape) > 1

WellStart ==
  /\ ~gs.isRunning
  /\ Receive("start", 1, 1)

WellRotate ==
  /\ Playing /\ last # "restart"
  /\ ~Upright
  /\ Receive("rotate", 1, 1)

WellShift ==
  /\ Playing /\ last # "restart"
  /\ Upright
  /\ gs.piece.x # Target
  /\ Receive(IF gs.piece.x > Target THEN "left" ELSE "right", 1, 1)

WellTick ==
  /\ Playing /\ last # "restart"
  /\ Upright
  /\ gs.piece.x = Target
  /\ gs.level = 1
  /\ timers # {}
  /\ last' = "tick"
  /\ Becomes(drop(Display, 1), "tick")
  /\ UNCHANGED netvars

WellRestart ==
  /\ gs.level = 2
  /\ Receive("restart", 1, 1)

NextWell == WellStart \/ WellRotate \/ WellShift \/ WellTick \/ WellRestart

SpecWell == InitIdle /\ [][NextWell]_vars

\* Violated under SpecIdle and SpecWell respectively: each seed of Init is a
\* state of the display those behaviours reach.
IdleSeedsNotReached ==
  Display \notin {IdleStacked(1, 1), IdleStacked(2, 1)}

WellSpawnNotReached == Display # Well(FALSE, 1)

WellUprightNotReached == Display # Well(TRUE, 1)

\* ------------------------------------------------ one piece in flight
\* SpecPiece: a started run in which the player shifts and rotates the piece
\* in flight while gravity lowers it, up to the tick that would lock it. The
\* run has just been started with shape i drawn (Started), or its first
\* piece, SHAPES[3], has been hard-dropped from spawn and shape i has come
\* into play (Landed). All of SHAPES is drawn from here.
Started(i) == startGame(Constructed(1, 1), i, 1)

Landed(i) == hardDrop(startGame(Constructed(1, 1), 3, i), 1)

PieceSeeds == {Started(i) : i \in 1..Len(SHAPES)} \cup {Landed(i) : i \in 1..Len(SHAPES)}

InitPiece ==
  /\ \E s \in PieceSeeds :
       /\ gs = s.gs
       /\ dropIntervalRef = s.dropIntervalRef
       /\ timers = s.timers
  /\ last = "init"
  /\ moves = 0
  /\ NetInit

\* handleAction(action) for the actions that draw no piece.
PieceStep(action) ==
  LET d == handleAction(Display, action, 1, 1)
  IN  /\ last' = action
      /\ gs' = d.gs
      /\ dropIntervalRef' = d.dropIntervalRef
      /\ timers' = d.timers
      /\ moves' = moves
      /\ UNCHANGED netvars

PieceLeft == PieceStep("left") /\ last' = "left"

PieceRight == PieceStep("right") /\ last' = "right"

PieceRotate == PieceStep("rotate") /\ last' = "rotate"

\* The interval fires while the row below the piece is free.
PieceTick ==
  /\ timers # {}
  /\ ~collide([gs.piece EXCEPT !.y = @ + 1], gs.board)
  /\ last' = "tick"
  /\ LET d == drop(Display, 1)
     IN  /\ gs' = d.gs
         /\ dropIntervalRef' = d.dropIntervalRef
         /\ timers' = d.timers
         /\ moves' = moves
         /\ UNCHANGED netvars

NextPiece == PieceLeft \/ PieceRight \/ PieceRotate \/ PieceTick

SpecPiece == InitPiece /\ [][NextPiece]_vars

\* ---------------------------------------------------------- transports
\* The controller page, the relay and the display's two listeners. Gravity is
\* left out of these specifications: they follow the messages of a few
\* presses, which travel in far less time than one drop interval.
MaxSends == 2

\* Tags drawn for the controller's presses: two the display has a case for
\* that touch the flags, the hard drop, and the D-pad's "up".
CtlTags == {"start", "pause", "drop", "up"}

\* What a further device emits: a tag of the vocabulary and one outside it.
ViewerTags == {"rotate", "jump"}

Controller ==
  [sock   |-> up["controller"],
   chan   |-> chan,
   flags  |-> ctl,
   online |-> "controller" \in connected]

\* sendAction posting on the channel only while the socket is down.
sendAction_OfflineOnly(c, action) ==
  [c EXCEPT !.sock  = Append(@, action),
            !.chan  = IF c.online THEN @ ELSE Append(@, action),
            !.flags = CASE action = "start" ->
                             [isRunning |-> TRUE, isPaused |-> FALSE, isGameOver |-> FALSE]
                        [] action = "pause" -> [@ EXCEPT !.isPaused = ~@]
                        [] OTHER -> @]

\* The controller's sendAction: emit on the socket (buffered by the client
\* while it is not connected), post on the channel, then the local flags.
sendAction(c, action) ==
  [c EXCEPT !.sock  = Append(@, action),
            !.chan  = Append(@, action),
            !.flags = CASE action = "start" ->
                             [isRunning |-> TRUE, isPaused |-> FALSE, isGameOver |-> FALSE]
                        [] action = "pause" -> [@ EXCEPT !.isPaused = ~@]
                        [] OTHER -> @]

\* io.emit in place of socket.broadcast.emit: the sender included.
broadcast_Echo(conn, dn, sender, action) ==
  [q \in Peers |-> IF q \in conn THEN Append(dn[q], action) ELSE dn[q]]

\* socket.broadcast.emit("control", action) on the relay, for the event of
\* sender: one copy for every socket connected now, the sender's excepted.
broadcast(conn, dn, sender, action) ==
  [q \in Peers |-> IF q \in conn \ {sender} THEN Append(dn[q], action) ELSE dn[q]]

\* The display leaving what arrives on the channel unapplied.
onmessage_Ignored(d, data, r1, r2) == d

\* The display's channel.onmessage.
onmessage(d, data, r1, r2) ==
  IF data.action # "" THEN handleAction(d, data.action, r1, r2) ELSE d

\* The display applied action on a receipt and became d. drop's game-over
\* branch calls setHighScore on a record score; drop has highScore among its
\* dependencies, so handleAction changes with it and the effect holding the
\* socket and the channel is due to re-run.
Applied(d, action) ==
  /\ Becomes(d, action)
  /\ appliedLog' = Append(appliedLog, action)
  /\ LET record == d.gs.isGameOver /\ ~gs.isGameOver /\ d.gs.score > highScore
     IN  /\ highScore' = IF record THEN d.gs.score ELSE highScore
         /\ stale' = (stale \/ record)

Sends == Len(sentLog)

CtlSend ==
  /\ Sends < MaxSends
  /\ \E a \in CtlTags :
       LET c == sendAction(Controller, a)
       IN  /\ up' = [up EXCEPT !["controller"] = c.sock]
           /\ chan' = c.chan
           /\ ctl' = c.flags
           /\ sentLog' = Append(sentLog, [from |-> "controller", action |-> a])
  /\ last' = "sendAction"
  /\ UNCHANGED <<gs, dropIntervalRef, timers, moves, down, connected,
                 highScore, stale, appliedLog, snap>>

\* Presses followed where the display is one lock from the end of its run:
\* the soft drop in place of the hard drop.
LocalTags == {"start", "pause", "softdrop", "up"}

LocalSend ==
  /\ Sends < MaxSends
  /\ \E a \in LocalTags :
       LET c == sendAction(Controller, a)
       IN  /\ up' = [up EXCEPT !["controller"] = c.sock]
           /\ chan' = c.chan
           /\ ctl' = c.flags
           /\ sentLog' = Append(sentLog, [from |-> "controller", action |-> a])
  /\ last' = "sendAction"
  /\ UNCHANGED <<gs, dropIntervalRef, timers, moves, down, connected,
                 highScore, stale, appliedLog, snap>>

\* sendAction on a device other than the display's: the channel of that
\* browser has no display listening, so the post queues nothing for it.
CtlSendRemote ==
  /\ Sends < MaxSends
  /\ \E a \in CtlTags :
       LET c == sendAction(Controller, a)
       IN  /\ up' = [up EXCEPT !["controller"] = c.sock]
           /\ ctl' = c.flags
           /\ sentLog' = Append(sentLog, [from |-> "controller", action |-> a])
  /\ last' = "sendAction"
  /\ UNCHANGED <<gs, dropIntervalRef, timers, moves, down, connected, chan,
                 highScore, stale, appliedLog, snap>>

\* A further device emits a control event on its socket.
ViewerSend ==
  /\ Sends < MaxSends
  /\ \E a \in ViewerTags :
       /\ up' = [up EXCEPT !["viewer"] = Append(@, a)]
       /\ sentLog' = Append(sentLog, [from |-> "viewer", action |-> a])
  /\ last' = "emit"
  /\ UNCHANGED <<gs, dropIntervalRef, timers, moves, down, connected, chan, ctl,
                 highScore, stale, appliedLog, snap>>

Connect ==
  /\ \E p \in Peers \ connected : connected' = connected \cup {p}
  /\ last' = "connect"
  /\ UNCHANGED <<gs, dropIntervalRef, timers, moves, up, down, chan, ctl,
                 highScore, stale, sentLog, appliedLog, snap>>

\* A socket goes down; what the relay had emitted to it is not dispatched.
Disconnect ==
  /\ \E p \in connected :
       /\ connected' = connected \ {p}
       /\ down' = [down EXCEPT ![p] = <<>>]
  /\ last' = "disconnect"
  /\ UNCHANGED <<gs, dropIntervalRef, timers, moves, up, chan, ctl,
                 highScore, stale, sentLog, appliedLog, snap>>

\* The relay's socket.on("control") for the oldest event of a connected peer.
RelayControl ==
  /\ \E p \in connected :
       /\ up[p] # <<>>
       /\ down' = broadcast(connected, down, p, Head(up[p]))
       /\ up' = [up EXCEPT ![p] = Tail(@)]
  /\ last' = "relay"
  /\ UNCHANGED <<gs, dropIntervalRef, timers, moves, connected, chan, ctl,
                 highScore, stale, sentLog, appliedLog, snap>>

\* The display's socket.on("control", handleAction).
SocketReceive ==
  /\ down["display"] # <<>>
  /\ \E r \in ShapeChoices :
       Applied(handleAction(Display, Head(down["display"]), r, 1),
               Head(down["display"]))
  /\ down' = [down EXCEPT !["display"] = Tail(@)]
  /\ last' = "control"
  /\ UNCHANGED <<up, connected, chan, ctl, sentLog, snap>>

\* The display's channel.onmessage.
ChannelReceive ==
  /\ chan # <<>>
  /\ \E r \in ShapeChoices :
       Applied(onmessage(Display, [action |-> Head(chan)], r, 1), Head(chan))
  /\ chan' = Tail(chan)
  /\ last' = "message"
  /\ UNCHANGED <<up, down, connected, ctl, sentLog, snap>>

\* A page with no "control" listener drops the event dispatched to it.
Discard ==
  /\ \E q \in Peers \ {"display"} :
       /\ down[q] # <<>>
       /\ down' = [down EXCEPT ![q] = Tail(@)]
  /\ last' = "discard"
  /\ UNCHANGED <<gs, dropIntervalRef, timers, moves, up, connected, chan, ctl,
                 highScore, stale, sentLog, appliedLog, snap>>

\* The display's effect re-runs: its cleanup disconnects the socket, closes
\* the channel (messages queued for it are not dispatched) and clears the
\* interval dropIntervalRef names without resetting the ref; then a new
\* socket, not yet connected, and a new channel are created.
Remount ==
  /\ stale
  /\ stale' = FALSE
  /\ connected' = connected \ {"display"}
  /\ up' = [up EXCEPT !["display"] = <<>>]
  /\ down' = [down EXCEPT !["display"] = <<>>]
  /\ chan' = <<>>
  /\ timers' = IF dropIntervalRef # 0 THEN clearInterval(timers, dropIntervalRef)
               ELSE timers
  /\ last' = "effect"
  /\ UNCHANGED <<gs, dropIntervalRef, moves, ctl, highScore, sentLog, appliedLog, snap>>

\* n hard drops in a run started with SHAPES[1] pieces, none moved: a tower
\* on columns 3..6.
RECURSIVE Dropped(_)
Dropped(n) == IF n = 0 THEN Started(1) ELSE hardDrop(Dropped(n - 1), 1)

\* SpecNet: controller and display are two tabs of one browser, both
\* sockets connected or both not yet, the run not started, just started or
\* one lock from its end.
NetSeeds == {Constructed(1, 1), Started(1), Dropped(ROWS - 1)}

InitNet ==
  /\ \E s \in NetSeeds :
       /\ gs = s.gs
       /\ dropIntervalRef = s.dropIntervalRef
       /\ timers = s.timers
  /\ last = "init"
  /\ moves = 0
  /\ \E both \in BOOLEAN :
       /\ connected = IF both THEN {"controller", "display"} ELSE {}
       /\ up = [p \in Peers |-> <<>>]
       /\ down = [p \in Peers |-> <<>>]
       /\ chan = <<>>
       /\ ctl = [isRunning |-> FALSE, isPaused |-> FALSE, isGameOver |-> FALSE]
       /\ highScore = 0
       /\ stale = FALSE
       /\ sentLog = <<>>
       /\ appliedLog = <<>>
       /\ snap = <<>>

NextNet ==
  \/ CtlSend
  \/ RelayControl
  \/ SocketReceive
  \/ ChannelReceive
  \/ Remount

SpecNet == InitNet /\ [][NextNet]_vars

\* SpecRelay: controller, display and a further device on three machines,
\* their sockets connecting and disconnecting; the run has just been started.
InitRelay ==
  /\ gs = Started(1).gs
  /\ dropIntervalRef = Started(1).dropIntervalRef
  /\ timers = Started(1).timers
  /\ last = "init"
  /\ moves = 0
  /\ NetInit

NextRelay ==
  \/ CtlSendRemote
  \/ ViewerSend
  \/ Connect
  \/ Disconnect
  \/ RelayControl
  \/ SocketReceive
  \/ Discard

SpecRelay == InitRelay /\ [][NextRelay]_vars

\* SpecLocal: no socket ever connects, so the relay forwards nothing; the
\* display is early or late in a run. A message posted on the channel is
\* dispatched unless the channel is closed first, and a due effect runs.
LocalSeeds == {Started(1), Dropped(ROWS - 1)}

InitLocal ==
  /\ \E s \in LocalSeeds :
       /\ gs = s.gs
       /\ dropIntervalRef = s.dropIntervalRef
       /\ timers = s.timers
  /\ last = "init"
  /\ moves = 0
  /\ NetInit

NextLocal == LocalSend \/ ChannelReceive \/ Remount

SpecLocal ==
  /\ InitLocal
  /\ [][NextLocal]_vars
  /\ WF_vars(ChannelReceive)
  /\ WF_vars(Remount)

\* ------------------------------------------------------------ run state
\* The display's second interval posts its three flags on the channel every
\* 500 ms; the controller page of the same browser takes them as its own.
MaxSnaps == 2

\* broadcastState posting the score along with the flags.
broadcastState_WithScore(state) ==
  [type       |-> "gameState",
   isRunning  |-> state.isRunning,
   isPaused   |-> state.isPaused,
   isGameOver |-> state.isGameOver,
   score      |-> state.score]

\* The message broadcastState builds from gameStateRef.current.
broadcastState(state) ==
  [type       |-> "gameState",
   isRunning  |-> state.isRunning,
   isPaused   |-> state.isPaused,
   isGameOver |-> state.isGameOver]

\* A channel delivering to the pages of every device.
postMessage_Anywhere(queue, heard, msg) == Append(queue, msg)

\* channel.postMessage as the listening page sees it: a BroadcastChannel
\* reaches the pages of the same browser and origin only, so the message is
\* queued for the listener when it is one of them (heard) and is lost
\* otherwise.
postMessage(queue, heard, msg) == IF heard THEN Append(queue, msg) ELSE queue

\* The controller's channel.onmessage keeping its own isPaused.
onGameState_KeepsPaused(flags, data) ==
  IF data.type = "gameState"
  THEN [isRunning  |-> data.isRunning,
        isPaused   |-> flags.isPaused,
        isGameOver |-> data.isGameOver]
  ELSE flags

\* The controller's channel.onmessage: setIsRunning, setIsPaused and
\* setIsGameOver from a message of type 'gameState'.
onGameState(flags, data) ==
  IF data.type = "gameState"
  THEN [isRunning  |-> data.isRunning,
        isPaused   |-> data.isPaused,
        isGameOver |-> data.isGameOver]
  ELSE flags

\* The state interval fires on a display whose browser holds the
\* controller's tab. (The queue is capped: the controller's page dispatches
\* a message in far less than 500 ms.)
BroadcastState ==
  /\ Len(snap) < MaxSnaps
  /\ snap' = postMessage(snap, TRUE, broadcastState(gs))
  /\ last' = "broadcast"
  /\ UNCHANGED <<gs, dropIntervalRef, timers, moves, up, down, connected, chan,
                 ctl, highScore, stale, sentLog, appliedLog>>

\* The state interval fires on a display whose controller is on another
\* device: no page there is on this browser's channel.
BroadcastRemote ==
  /\ Len(snap) < MaxSnaps
  /\ snap' = postMessage(snap, FALSE, broadcastState(gs))
  /\ last' = "broadcast"
  /\ UNCHANGED <<gs, dropIntervalRef, timers, moves, up, down, connected, chan,
                 ctl, highScore, stale, sentLog, appliedLog>>

\* The controller's channel.onmessage for the oldest posted message.
SnapReceive ==
  /\ snap # <<>>
  /\ ctl' = onGameState(ctl, Head(snap))
  /\ snap' = Tail(snap)
  /\ last' = "snapshot"
  /\ UNCHANGED <<gs, dropIntervalRef, timers, moves, up, down, connected, chan,
                 highScore, stale, sentLog, appliedLog>>

\* SpecSync: controller and display in two tabs of one browser, no socket
\* connected; the display is idle, early in a run or one lock from its end.
\* Both intervals of the pages keep firing and a posted message is
\* dispatched.
SyncSeeds == {Constructed(1, 1), Started(1), Dropped(ROWS - 1)}

InitSync ==
  /\ \E s \in SyncSeeds :
       /\ gs = s.gs
       /\ dropIntervalRef = s.dropIntervalRef
       /\ timers = s.timers
  /\ last = "init"
  /\ moves = 0
  /\ NetInit

NextSync ==
  \/ LocalSend
  \/ ChannelReceive
  \/ Remount
  \/ BroadcastState
  \/ SnapReceive

SpecSync ==
  /\ InitSync
  /\ [][NextSync]_vars
  /\ WF_vars(Remount)
  /\ WF_vars(BroadcastState)
  /\ WF_vars(SnapReceive)

\* SpecRemote: controller, display and a further device on three machines,
\* all reaching the relay; the display is early in a run or one lock from its
\* end and re-connects after its effect has re-run.
RemoteSeeds == {Started(1), Dropped(ROWS - 1)}

InitRemote ==
  /\ \E s \in RemoteSeeds :
       /\ gs = s.gs
       /\ dropIntervalRef = s.dropIntervalRef
       /\ timers = s.timers
  /\ last = "init"
  /\ moves = 0
  /\ up = [p \in Peers |-> <<>>]
  /\ down = [p \in Peers |-> <<>>]
  /\ connected = Peers
  /\ chan = <<>>
  /\ ctl = [isRunning |-> FALSE, isPaused |-> FALSE, isGameOver |-> FALSE]
  /\ highScore = 0
  /\ stale = FALSE
  /\ sentLog = <<>>
  /\ appliedLog = <<>>
  /\ snap = <<>>

NextRemote ==
  \/ CtlSendRemote
  \/ ViewerSend
  \/ Connect
  \/ RelayControl
  \/ SocketReceive
  \/ Discard
  \/ Remount
  \/ BroadcastRemote

SpecRemote == InitRemote /\ [][NextRemote]_vars

\* ------------------------------------------------------- gravity alone
\* SpecGravity: a started run in which the player does nothing and the
\* interval keeps firing. Followed from the state where twelve pieces have
\* come to rest; SpecFall shows that gravity alone reaches that state.
\*
\* n pieces locked by interval ticks alone after start, all SHAPES[1]: the
\* board and the timer of n hard drops, without the hard drops' points.
Fallen(n) == [Dropped(n) EXCEPT !.gs.score = 0]

GravitySeeds == {Fallen(ROWS - 8)}

InitGravity ==
  /\ \E s \in GravitySeeds :
       /\ gs = s.gs
       /\ dropIntervalRef = s.dropIntervalRef
       /\ timers = s.timers
  /\ last = "init"
  /\ moves = 0
  /\ NetInit

\* A live interval fires and calls drop.
GravityTick ==
  /\ timers # {}
  /\ last' = "tick"
  /\ \E r \in ShapeChoices :
       LET d == drop(Display, r)
       IN  /\ gs' = d.gs
           /\ dropIntervalRef' = d.dropIntervalRef
           /\ timers' = d.timers
  /\ moves' = moves
  /\ UNCHANGED netvars

NextGravity == GravityTick

SpecGravity == InitGravity /\ [][NextGravity]_vars /\ WF_vars(GravityTick)

\* The run right after start, every piece drawn being SHAPES[1].
InitFall ==
  /\ gs = Started(1).gs
  /\ dropIntervalRef = Started(1).dropIntervalRef
  /\ timers = Started(1).timers
  /\ last = "init"
  /\ moves = 0
  /\ NetInit

FallTick ==
  /\ timers # {}
  /\ last' = "tick"
  /\ LET d == drop(Display, 1)
     IN  /\ gs' = d.gs
         /\ dropIntervalRef' = d.dropIntervalRef
         /\ timers' = d.timers
  /\ moves' = moves
  /\ UNCHANGED netvars

SpecFall == InitFall /\ [][FallTick]_vars

\* Violated under SpecFall: the seed of SpecGravity is a state ticks reach.
GravitySeedNotReached == Display \notin GravitySeeds

\* ------------------------------------------------- a piece coming to rest
\* SpecLock: a run in play whose active piece is at rest, or two rows above
\* its resting place, in a slot at the right edge of the stack, and takes
\* gravity steps (interval ticks, soft drops, hard drops) until it locks or
\* the run ends.
\*
\* The piece is the upright SHAPES[1] (slot: column 9, four rows) or
\* SHAPES[2] (slot: columns 8..9, two rows). The slot's rows start at row w.
\* Those numbered in full are occupied in every column left of the slot, the
\* others in columns 0..5 or 0..6; the two rows above the slot are occupied
\* in columns 0..1 and 0..4; the rows below it in every column but column 0.
\* No row is full before the piece locks.
LockPiece(p) ==
  IF p = 1 THEN [randomPiece(1) EXCEPT !.shape = rotated(@)] ELSE randomPiece(2)

LockFilled(p, full, w, x, y) ==
  LET h  == Len(LockPiece(p).shape)
      wd == Len(LockPiece(p).shape[1])
  IN  IF y < w - 2 THEN FALSE
      ELSE IF y = w - 2 THEN x <= 1
      ELSE IF y = w - 1 THEN x <= 4
      ELSE IF y < w + h
           THEN IF (y - w) \in full THEN x < COLS - wd
                ELSE x <= 5 + ((y - w) % 2)
      ELSE x >= 1

\* Lines and score of the run so far: none; two clears of four rows at
\* level 1; those, then a single and a four at level 1, a four and a double
\* at level 2.
LockStats ==
  << [lines |-> 0, score |-> 0],
     [lines |-> 8, score |-> 2 * linePoints[5]],
     [lines |-> 19, score |-> 3 * linePoints[5] + linePoints[2]
                               + 2 * (linePoints[5] + linePoints[3])] >>

LockSeed(p, full, w, dh, st, j) ==
  LET pc == LockPiece(p)
      lv == (LockStats[st].lines \div 10) + 1
  IN  [gs |-> [board       |-> [r \in 1..ROWS |-> [c \in 1..COLS |->
                                  IF LockFilled(p, full, w, c - 1, r - 1) THEN 1 ELSE 0]],
               boardColors |-> [r \in 1..ROWS |-> [c \in 1..COLS |->
                                  IF LockFilled(p, full, w, c - 1, r - 1)
                                  THEN SHAPES[1].color ELSE NULL]],
               piece       |-> [pc EXCEPT !.x = COLS - Len(pc.shape[1]), !.y = w - dh],
               nextPiece   |-> randomPiece(j),
               score       |-> LockStats[st].score,
               lines       |-> LockStats[st].lines,
               level       |-> lv,
               isRunning   |-> TRUE,
               isPaused    |-> FALSE,
               isGameOver  |-> FALSE],
       dropIntervalRef |-> 1,
       timers          |-> {[id |-> 1, ms |-> speed(lv)]}]

\* The slot at the bottom of the board or above ten rows of stack; rows the
\* piece still has to fall; and the piece at spawn on a tower that leaves it
\* one free row or none, or two with SHAPES[2] queued.
LockSeeds ==
  UNION {{LockSeed(p, full, w, dh, st, j) :
            full \in SUBSET (0..(Len(LockPiece(p).shape) - 1)),
            w \in {ROWS - Len(LockPiece(p).shape), ROWS \div 2},
            dh \in {0, 2},
            st \in 1..Len(LockStats),
            j \in ShapeChoices} : p \in {1, 2}}
    \cup {Dropped(ROWS - 1), Dropped(ROWS - 2), hardDrop(Dropped(ROWS - 3), 2)}

InitLock ==
  /\ \E s \in LockSeeds :
       /\ gs = s.gs
       /\ dropIntervalRef = s.dropIntervalRef
       /\ timers = s.timers
  /\ last = "init"
  /\ moves = 0
  /\ NetInit

\* The piece the session began with is still in flight: a piece that has
\* taken a step is back on row 0 only if it locked or the run ended.
InFlight == last = "init" \/ gs.piece.y > 0

LockTick ==
  /\ InFlight
  /\ timers # {}
  /\ last' = "tick"
  /\ \E r \in ShapeChoices : Becomes(drop(Display, r), "tick")
  /\ UNCHANGED netvars

LockSoftDrop ==
  /\ InFlight
  /\ last' = "softdrop"
  /\ \E r \in ShapeChoices : Becomes(handleAction(Display, "softdrop", r, r), "softdrop")
  /\ UNCHANGED netvars

LockHardDrop ==
  /\ InFlight
  /\ last' = "drop"
  /\ \E r \in ShapeChoices : Becomes(handleAction(Display, "drop", r, r), "drop")
  /\ UNCHANGED netvars

NextLock == LockTick \/ LockSoftDrop \/ LockHardDrop

SpecLock == InitLock /\ [][NextLock]_vars

\* ------------------------------------------------------------ claims
\* Board, pieces and counters of the run (everything but the run flags).
Run(g) == <<g.board, g.boardColors, g.piece, g.nextPiece, g.score, g.lines, g.level>>

SpawnPieces == {randomPiece(i) : i \in 1..Len(SHAPES)}

\* C1: in every reachable state gameOver = true implies running = true and
\* paused = false.
C1_GameOverImpliesRunning ==
  gs.isGameOver => (gs.isRunning /\ ~gs.isPaused)

\* C2: a player soft drop applied to a run with paused = true, gameOver = true
\* or running = false leaves board, pieces, score, lines and level unchanged.
C2_SoftDropNoOpWhenNotPlaying ==
  [][(last' = "softdrop" /\ ~Playing) => Run(gs') = Run(gs)]_vars

\* C3: left, right, rotate and hard drop applied to a run with running = false,
\* paused = true or gameOver = true change nothing: not the board, the pieces,
\* the counters, the run flags, nor the gravity timer.
C3_MovesNoOpWhenNotPlaying ==
  [][(last' \in {"left", "right", "rotate", "drop"} /\ ~Playing)
       => UNCHANGED <<gs, dropIntervalRef, timers>>]_vars

\* C3 witness: a hard drop was received by a paused run.
C3_Witness == last = "drop" /\ gs.isPaused /\ gs.isRunning

\* C4: whenever running = true, paused = false and gameOver = false, a gravity
\* timer is scheduled (in particular right after restart).
C4_PlayingHasTimer ==
  Playing => timers # {}

\* C5: whenever a gravity timer is scheduled, its interval is
\* max(100, 700 - (level - 1) * 50) ms for the run's current level.
C5_TimerIntervalMatchesLevel ==
  \A t \in timers : t.ms = speed(gs.level)

\* C6: a gravity timer is scheduled only while running = true, paused = false
\* and gameOver = false.
C6_TimerOnlyWhilePlaying ==
  (timers # {} \/ dropIntervalRef # 0) => Playing

\* C6 witness: a timer tick ended the run and left no timer behind.
C6_Witness ==
  last = "tick" /\ gs.isGameOver /\ gs.isRunning /\ timers = {}

\* C7: at most one gravity timer is scheduled in any reachable state, and it
\* is the one dropIntervalRef holds.
C7_AtMostOneTimer ==
  /\ Cardinality(timers) <= 1
  /\ \A t \in timers : t.id = dropIntervalRef
  /\ (timers = {} => dropIntervalRef = 0)

\* C7 witness: a lock raised the level and drop re-created the interval.
C7_Witness ==
  /\ last \in {"drop", "softdrop", "tick"}
  /\ gs.level = 2
  /\ timers = {[id |-> dropIntervalRef, ms |-> speed(2)]}

\* C8: restart applied in any state yields a fresh run: empty board and colour
\* board, score 0, lines 0, level 1, active and next piece at spawn position,
\* running = true, paused = false, gameOver = false.
C8_RestartFresh ==
  last = "restart" =>
    /\ gs.board = createEmptyBoard
    /\ gs.boardColors = createEmptyColorBoard
    /\ gs.score = 0
    /\ gs.lines = 0
    /\ gs.level = 1
    /\ gs.piece \in SpawnPieces
    /\ gs.nextPiece \in SpawnPieces
    /\ gs.isRunning
    /\ ~gs.isPaused
    /\ ~gs.isGameOver

\* C8 witness: restart was applied after pieces had moved, to a run that held
\* no timer (idle, paused or over).
C8_Witness == last = "restart" /\ moves > 0 /\ timers = {}

\* C9: the step that sets gameOver leaves running true and cancels the gravity
\* timer, and from then on no tick is scheduled or takes effect until start or
\* restart.
C9_GameOverStep ==
  [][/\ (~gs.isGameOver /\ gs'.isGameOver)
          => (gs'.isRunning /\ timers' = {} /\ dropIntervalRef' = 0)
     /\ (gs.isGameOver /\ last' \notin {"start", "restart"})
          => (timers' = {} /\ gs' = gs)]_vars

\* C10: once gameOver = true, every gravity tick and every action other than
\* start and restart leaves the whole GameState unchanged.
C10_GameOverTerminal ==
  [][(gs.isGameOver /\ last' \notin {"start", "restart"}) => gs' = gs]_vars

\* C10 witness: pause was received by a run that is over.
C10_Witness == last = "pause" /\ gs.isGameOver
\* C15: across every transition other than restart and a start that begins a
\* fresh run the score does not decrease, and the score is never negative.
C15_ScoreMonotone ==
  /\ [](gs.score >= 0)
  /\ [][(/\ last' # "restart"
         /\ ~(last' = "start" /\ (gs.isGameOver \/ ~gs.isRunning)))
          => gs'.score >= gs.score]_vars

\* C15 witness: a hard drop in a run without cleared lines earned points.
C15_Witness == last = "drop" /\ gs.lines = 0 /\ gs.score > 0

\* C16: in every reachable state level = floor(lines / 10) + 1, and level >= 1.
C16_LevelFromLines ==
  /\ gs.level = (gs.lines \div 10) + 1
  /\ gs.level >= 1

\* C16 witness: a lock took the lines total past 10 and the level to 2.
C16_Witness == gs.lines >= 10 /\ gs.level = 2

\* C17: pause flips paused exactly when running = true and gameOver = false
\* and leaves the flags alone otherwise; either way board, pieces, score,
\* lines and level are unchanged.
C17_PauseToggles ==
  [][last' = "pause" =>
       /\ Run(gs') = Run(gs)
       /\ gs'.isRunning = gs.isRunning
       /\ gs'.isGameOver = gs.isGameOver
       /\ gs'.isPaused = IF gs.isRunning /\ ~gs.isGameOver
                         THEN ~gs.isPaused ELSE gs.isPaused]_vars

\* C17 witness: pause resumed a paused run that had pieces moved.
C17_Witness ==
  last = "pause" /\ gs.isRunning /\ ~gs.isGameOver /\ ~gs.isPaused /\ moves > 0

\* C18: start applied to a run that is running and not over leaves board,
\* pieces, score, lines and level unchanged and only ensures running = true,
\* paused = false; start applied when running = false or gameOver = true
\* begins a fresh run.
C18_StartFrame ==
  [][last' = "start" =>
       /\ gs'.isRunning /\ ~gs'.isPaused /\ ~gs'.isGameOver
       /\ IF gs.isRunning /\ ~gs.isGameOver
          THEN Run(gs') = Run(gs)
          ELSE /\ gs'.board = createEmptyBoard
               /\ gs'.boardColors = createEmptyColorBoard
               /\ gs'.score = 0
               /\ gs'.lines = 0
               /\ gs'.level = 1
               /\ gs'.piece \in SpawnPieces
               /\ gs'.nextPiece \in SpawnPieces]_vars

\* C18 witness: start was applied to a run in flight and kept its score.
C18_Witness == last = "start" /\ gs.score > 0
\* The piece turned clockwise and shifted by off columns.
Turned(off) == [gs.piece EXCEPT !.shape = rotated(@), !.x = @ + off]

\* The placements rotate tries, in the order it tries them.
Tries == <<0, -1, 1, -2, 2>>

Fitting == {k \in 1..Len(Tries) : ~collide(Turned(Tries[k]), gs.board)}

\* C19: rotate in a legal state replaces the piece by its clockwise-rotated
\* matrix at the first non-colliding placement among the offsets 0, -1, +1,
\* -2, +2 in that order, so the result never overlaps or leaves the grid, and
\* leaves the piece unchanged when all five collide.
C19_RotateFirstFit ==
  [][(last' = "rotate" /\ Playing) =>
       /\ gs' = [gs EXCEPT !.piece =
                   IF Fitting = {} THEN gs.piece
                   ELSE Turned(Tries[CHOOSE k \in Fitting : \A k2 \in Fitting : k <= k2])]
       /\ ~collide(gs'.piece, gs'.board)]_vars

\* C19 witness: over the hard-dropped SHAPES[3] (row 19 of columns 4..6 and
\* row 18 of column 5) the 4-long piece stands upright in column 7 on rows
\* 16..19 right after a rotate. Flat it does not fit at x = 7 or beyond, so it
\* was turned at x = 6, where columns 6 and 5 are blocked: kicked by +1.
C19_Witness ==
  /\ last = "rotate"
  /\ gs.board = Landed(1).gs.board
  /\ gs.piece = [randomPiece(1) EXCEPT !.shape = rotated(@), !.x = 7, !.y = 16]

\* C20: moveLeft / moveRight in a legal state shifts the piece by exactly one
\* column iff the shifted placement does not collide and leaves it unchanged
\* otherwise; the 4-wide piece therefore never gets past x = 6.
C20_MoveOneColumn ==
  /\ [][(last' \in {"left", "right"} /\ Playing) =>
          LET dir   == IF last' = "left" THEN -1 ELSE 1
              moved == [gs.piece EXCEPT !.x = @ + dir]
          IN  gs' = [gs EXCEPT !.piece =
                       IF collide(moved, gs.board) THEN gs.piece ELSE moved]]_vars
  /\ [](gs.piece.shape = SHAPES[1].shape => gs.piece.x \in 0..(COLS - 4))

\* C20 witness: the 4-wide piece, spawned at x = 3 on the empty board, has
\* been moved right up to x = 6 without having descended.
C20_Witness ==
  /\ last = "right"
  /\ gs.board = createEmptyBoard
  /\ gs.piece = [randomPiece(1) EXCEPT !.x = 6]
  /\ randomPiece(1).x = 3
\* The cells of the board that hold a locked block.
Cells ==
  Cardinality({c \in (1..ROWS) \X (1..COLS) : gs.board[c[1]][c[2]] # 0})

\* Every control event emitted has been relayed and dispatched, every channel
\* message dispatched, with both sockets connected.
Quiet ==
  /\ {"controller", "display"} \subseteq connected
  /\ \A p \in Peers : up[p] = <<>> /\ down[p] = <<>>
  /\ chan = <<>>

\* C11: the display applies an action once per receipt, whichever path it
\* came by, with no deduplication: an action that reached it over both the
\* relay and the channel has been applied twice, and one hard-drop press on a
\* run in play has locked two pieces. (Some draw r of ShapeChoices explains
\* the step; the draws that give the piece now queued are tried first.)
C11_AppliedPerReceipt ==
  /\ [][last' \in {"control", "message"} =>
          /\ Len(appliedLog') = Len(appliedLog) + 1
          /\ \A first \in {{k \in ShapeChoices : randomPiece(k) = gs'.nextPiece}} :
               \/ \E r \in first :
                    gs' = handleAction(Display, appliedLog'[Len(appliedLog')], r, 1).gs
               \/ \E r \in ShapeChoices \ first :
                    gs' = handleAction(Display, appliedLog'[Len(appliedLog')], r, 1).gs]_vars
  /\ [](Quiet => Len(appliedLog) = 2 * Sends)
  /\ [](Quiet /\ Playing /\ sentLog = <<[from |-> "controller", action |-> "drop"]>>
          => Cells = 8)

\* C11 witness: one "drop" press arrived twice and locked two pieces.
C11_Witness ==
  /\ Quiet
  /\ sentLog = <<[from |-> "controller", action |-> "drop"]>>
  /\ appliedLog = <<"drop", "drop">>
  /\ Cells = 8

\* C12: when the relay handles a control event of a peer it forwards it,
\* unmodified, to exactly the peers connected at that moment other than the
\* sender: the sender never gets it back, and a peer connecting later
\* receives nothing of it.
C12_RelayForwardsToOthers ==
  /\ [][last' = "relay" =>
          \E p \in connected :
            /\ up[p] # <<>>
            /\ up' = [up EXCEPT ![p] = Tail(@)]
            /\ \A q \in Peers :
                 down'[q] = IF q \in connected /\ q # p
                            THEN Append(down[q], Head(up[p]))
                            ELSE down[q]]_vars
  /\ [][last' = "connect" => down' = down]_vars

\* C12 witness: the relay has just forwarded "jump", a tag no page has a case
\* for, from the further device to the display alone: the sender got no copy
\* and the controller, not connected, none either.
C12_Witness ==
  /\ last = "relay"
  /\ connected = {"display", "viewer"}
  /\ sentLog = <<[from |-> "viewer", action |-> "jump"]>>
  /\ down = [q \in Peers |-> IF q = "display" THEN <<"jump">> ELSE <<>>]

\* C13: every action the controller dispatches goes out on both transports,
\* the socket and the channel, with the same tag, whatever the controller's
\* flags and whether or not its socket is connected.
C13_BothTransports ==
  [][sentLog' # sentLog =>
       LET e == sentLog'[Len(sentLog')]
       IN  /\ sentLog' = Append(sentLog, e)
           /\ e.from = "controller"
           /\ up'["controller"] = Append(up["controller"], e.action)
           /\ chan' = Append(chan, e.action)]_vars

\* C13 witness: "pause" then "drop" dispatched with the socket connected, the
\* second with the controller's paused flag set; both are on both transports.
C13_Witness ==
  /\ last = "sendAction"
  /\ "controller" \in connected
  /\ ctl.isPaused
  /\ sentLog = <<[from |-> "controller", action |-> "pause"],
                 [from |-> "controller", action |-> "drop"]>>
  /\ up["controller"] = <<"pause", "drop">>
  /\ chan = <<"pause", "drop">>

\* The tags the controller dispatched, in order.
CtlActions == [i \in 1..Len(sentLog) |-> sentLog[i].action]

\* C14: with the relay unreachable and controller and display sharing the
\* channel, every action the controller sends is eventually applied to the
\* display's run, exactly once.
C14_LocalExactlyOnce ==
  /\ [](/\ Len(appliedLog) <= Len(sentLog)
        /\ appliedLog = SubSeq(CtlActions, 1, Len(appliedLog)))
  /\ <>[](appliedLog = CtlActions)
\* The active piece at the lowest row it can descend to.
Rest ==
  LET at(yy) == [gs.piece EXCEPT !.y = yy]
  IN  at(CHOOSE yy \in gs.piece.y..ROWS :
           /\ \A z \in gs.piece.y..yy : ~collide(at(z), gs.board)
           /\ collide(at(yy + 1), gs.board))

\* The board with the cells of piece p added, cell by cell.
With(p) ==
  [board       |-> [r \in 1..ROWS |-> [c \in 1..COLS |->
                      IF Covers(p, c - 1, r - 1) THEN 1 ELSE gs.board[r][c]]],
   boardColors |-> [r \in 1..ROWS |-> [c \in 1..COLS |->
                      IF Covers(p, c - 1, r - 1) THEN p.color
                      ELSE gs.boardColors[r][c]]]]

FullRows(b) == {y \in 1..ROWS : \A x \in 1..COLS : b[y][x] # 0}

\* The n-th smallest element of S.
Nth(S, n) == CHOOSE y \in S : Cardinality({z \in S : z < y}) = n - 1

\* rows without the rows numbered in full, as many fresh rows on top.
Cleared(rows, full, fresh) ==
  [r \in 1..ROWS |->
     IF r <= Cardinality(full) THEN fresh
     ELSE rows[Nth((1..ROWS) \ full, r - Cardinality(full))]]

\* A gravity step locked the piece: only a lock changes the board.
Locks == gs'.board # gs.board

\* C21: for a board with exactly k full rows (0 <= k <= 4, adjacent ones
\* included) clearLines returns k, removes exactly those rows from board and
\* colour board, puts k empty rows on top and keeps the other rows, contents
\* and order.
C21_ClearLines ==
  [][Locks =>
       \A m \in {With(Rest)} : \A full \in {FullRows(m.board)} :
         /\ Cardinality(full) \in 0..4
         /\ gs'.lines = gs.lines + Cardinality(full)
         /\ gs'.board = Cleared(m.board, full, [x \in 1..COLS |-> 0])
         /\ gs'.boardColors = Cleared(m.boardColors, full, [x \in 1..COLS |-> NULL])]_vars

\* C21 witness: the upright piece locked in column 9 of the bottom four rows
\* and completed the two upper ones and the lowest: three rows are gone, the
\* third slot row is now the bottom row and the two rows that lay above the
\* slot follow it.
C21_Witness ==
  /\ last = "tick"
  /\ gs.lines = 3
  /\ gs.board[ROWS] = [x \in 1..COLS |-> IF x <= 6 \/ x = COLS THEN 1 ELSE 0]
  /\ gs.board[ROWS - 1] = [x \in 1..COLS |-> IF x <= 5 THEN 1 ELSE 0]
  /\ gs.board[ROWS - 2] = [x \in 1..COLS |-> IF x <= 2 THEN 1 ELSE 0]
  /\ gs.board[ROWS - 3] = [x \in 1..COLS |-> 0]
CellsOf(b) == Cardinality({c \in (1..ROWS) \X (1..COLS) : b[c[1]][c[2]] # 0})

\* C22: a lock that clears n lines (n in 0..4) at level L adds exactly
\* [0, 100, 300, 500, 800][n] * L to the score, L being the level held before
\* the lock, and n to lines; a lock that clears nothing changes neither
\* score nor lines nor level. (A hard drop has first added 2 per row fallen.)
C22_LockScore ==
  [][Locks =>
       \A n \in {Cardinality(FullRows(With(Rest).board))} :
       \A fallen \in {IF last' = "drop" THEN 2 * (Rest.y - gs.piece.y) ELSE 0} :
         /\ n \in 0..4
         /\ gs'.score = gs.score + fallen + <<0, 100, 300, 500, 800>>[n + 1] * gs.level
         /\ gs'.lines = gs.lines + n
         /\ n = 0 => gs'.lines = gs.lines /\ gs'.level = gs.level
                                          /\ gs'.score = gs.score + fallen]_vars

\* C22 witness: a soft drop locked a piece that cleared four rows at 8 lines
\* and level 1: 800 points at level 1, and the level is 2 afterwards.
C22_Witness ==
  /\ last = "softdrop"
  /\ gs.lines = 12
  /\ gs.level = 2
  /\ gs.score = 2 * linePoints[5] + 800

\* C23: hardDrop in a legal state where the piece can descend d >= 1 rows
\* takes it to the lowest non-colliding row, adds exactly 2 * d to the score
\* apart from the line-clear bonus, merges its cells into the board and
\* promotes the queued piece: exactly one piece is locked per hardDrop.
C23_HardDropLocksOne ==
  [][(last' = "drop" /\ Playing /\ Rest.y > gs.piece.y) =>
       \A m \in {With(Rest)} : \A n \in {Cardinality(FullRows(m.board))} :
         /\ gs'.board = Cleared(m.board, FullRows(m.board), [x \in 1..COLS |-> 0])
         /\ CellsOf(gs'.board) = CellsOf(gs.board) + 4 - COLS * n
         /\ gs'.score = gs.score + 2 * (Rest.y - gs.piece.y)
                          + linePoints[n + 1] * gs.level
         /\ gs'.piece = gs.nextPiece
         /\ gs'.nextPiece \in SpawnPieces
         /\ ~gs'.isGameOver]_vars

\* C23 witness: a hard drop took the piece two rows down into a slot where
\* it completed no row: 4 points on a run that had none.
C23_Witness ==
  /\ last = "drop"
  /\ gs.score = 4
  /\ gs.lines = 0
  /\ gs.piece.y = 0
  /\ gs.board[ROWS][COLS] # 0

\* C29: gameOver turns true only inside a gravity step (interval tick, soft
\* drop, or the last step of a hard drop) whose descent is blocked while the
\* piece's origin row is <= 0; that step merges nothing and leaves board,
\* score, lines, level, active piece and next piece unchanged.
C29_GameOverFrame ==
  [][(gs'.isGameOver /\ ~gs.isGameOver) =>
       /\ last' \in {"tick", "softdrop", "drop"}
       /\ collide([gs.piece EXCEPT !.y = @ + 1], gs.board)
       /\ gs.piece.y <= 0
       /\ Run(gs') = Run(gs)]_vars

\* C29 witness: the interval ended a run whose piece was blocked at spawn.
C29_Witness ==
  /\ last = "tick"
  /\ gs.isGameOver
  /\ gs.piece = randomPiece(1)
  /\ gs.board[2][4] # 0

\* C30: when a gravity step locks a piece without game over the new board
\* is the old board plus the piece's cells, with their colour, with full rows
\* then cleared; the queued piece becomes the active piece, unchanged, at its
\* spawn position (row 0, centred); and a new piece is queued.
C30_LockFrame ==
  [][Locks =>
       \A m \in {With(Rest)} : \A c \in {clearLines(m.board, m.boardColors)} :
         /\ ~gs'.isGameOver
         /\ gs'.board = c.board
         /\ gs'.boardColors = c.boardColors
         /\ gs'.piece = gs.nextPiece
         /\ gs'.piece.y = 0
         /\ gs'.piece.x = (COLS \div 2) - (Len(gs'.piece.shape[1]) \div 2)
         /\ gs'.nextPiece \in SpawnPieces]_vars

\* C30 witness: SHAPES[2] locked in the bottom slot without completing a
\* row; its colour is on the board and the queued SHAPES[2] is in play.
C30_Witness ==
  /\ last = "tick"
  /\ gs.lines = 0
  /\ gs.board[ROWS][COLS] = 1
  /\ gs.boardColors[ROWS][COLS] = SHAPES[2].color
  /\ gs.boardColors[ROWS - 1][COLS - 1] = SHAPES[2].color
  /\ gs.piece = randomPiece(2)
\* C28: in every reachable state the board and the colour board each have
\* exactly 20 rows of 10 cells, and a board cell is occupied if and only if
\* its colour tag is set.
C28_BoardShape ==
  /\ DOMAIN gs.board = 1..20
  /\ DOMAIN gs.boardColors = 1..20
  /\ \A r \in 1..20 :
       /\ DOMAIN gs.board[r] = 1..10
       /\ DOMAIN gs.boardColors[r] = 1..10
       /\ \A c \in 1..10 : (gs.board[r][c] # 0) <=> (gs.boardColors[r][c] # NULL)

\* C28 witness: a hard drop completed a row of a stacked board; the rows
\* above it moved down on both boards.
C28_Witness ==
  /\ last = "drop"
  /\ gs.lines > 0
  /\ CellsOf(gs.board) > 0
\* C24: the display treats the wire tag "down" as a soft-drop alias: a
\* received "down" performs the same single-step descent as "softdrop"
\* would in the same state.
C24_DownIsSoftDrop ==
  [][last' = "down" =>
       \E r \in ShapeChoices : gs' = handleAction(Display, "softdrop", r, r).gs]_vars
Flags(state) ==
  [isRunning |-> state.isRunning, isPaused |-> state.isPaused,
   isGameOver |-> state.isGameOver]

\* C25: the display emits run-state snapshots on a timer of its own,
\* independent of the gravity timer: a snapshot carries exactly the type tag
\* and the display's running, paused and gameOver flags of the moment (no
\* board, no score) and leaves the run and the gravity interval alone, and
\* snapshots keep being emitted whatever the run state, idle, paused and
\* game over included.
C25_SnapshotsKeepComing ==
  /\ [][last' = "broadcast" =>
          /\ snap' = Append(snap, Flags(gs) @@ [type |-> "gameState"])
          /\ DOMAIN snap'[Len(snap')] = {"type", "isRunning", "isPaused", "isGameOver"}
          /\ <<gs, dropIntervalRef, timers>>' = <<gs, dropIntervalRef, timers>>]_vars
  /\ []<>(last = "broadcast")

\* C25 witness: a snapshot emitted after the run ended, no gravity interval
\* alive, saying game over.
C25_Witness ==
  /\ last = "broadcast"
  /\ gs.isGameOver
  /\ timers = {}
  /\ snap[Len(snap)].isGameOver

\* C26: with controller and display on one broadcast channel, every received
\* snapshot overwrites the controller's three flags, whatever its own start
\* and pause presses had made them, and once the display's flags stop
\* changing the controller's flags become and stay equal to them.
C26_ControllerFollows ==
  /\ [][last' = "snapshot" =>
          ctl' = [isRunning  |-> Head(snap).isRunning,
                  isPaused   |-> Head(snap).isPaused,
                  isGameOver |-> Head(snap).isGameOver]]_vars
  /\ <>[](ctl = Flags(gs))

\* C26 witness: the one press was "pause", which set the controller's
\* isPaused while the display, idle, ignored it; a snapshot has put the
\* controller's flag back.
C26_Witness ==
  /\ last = "snapshot"
  /\ sentLog = <<[from |-> "controller", action |-> "pause"]>>
  /\ appliedLog = <<"pause">>
  /\ ~gs.isRunning
  /\ ~ctl.isPaused
  /\ ctl = Flags(gs)

\* C27: run state never travels over the network path. With the controller
\* reaching the display through the relay only, no snapshot is ever queued
\* for it, its flags change solely in its own start and pause presses, and
\* it never shows game over.
C27_NoRunStateOverRelay ==
  /\ [](snap = <<>>)
  /\ [](~ctl.isGameOver)
  /\ [][ctl' # ctl =>
          /\ last' = "sendAction"
          /\ sentLog'[Len(sentLog')].from = "controller"
          /\ sentLog'[Len(sentLog')].action \in {"start", "pause"}]_vars

\* C27 witness: the controller's hard drop, forwarded by the relay, ended
\* the display's run; the display has posted a snapshot since and the
\* controller's flags are as its presses left them.
C27_Witness ==
  /\ last = "broadcast"
  /\ gs.isGameOver
  /\ ~ctl.isGameOver
  /\ \E i \in 1..Len(sentLog) : sentLog[i] = [from |-> "controller", action |-> "drop"]
\* C31: in a state with running, not paused and not game over, a player's
\* soft drop has exactly the successor a gravity tick has in that state
\* (one-row descent, or lock with line clear and spawn, or game over), and
\* the descent itself earns no points.
C31_SoftDropIsTick ==
  [][(last' = "softdrop" /\ Playing) =>
       /\ \E r \in ShapeChoices : \A t \in {drop(Display, r)} :
            /\ gs' = t.gs
            /\ dropIntervalRef' = t.dropIntervalRef
            /\ timers' = t.timers
       /\ ~collide([gs.piece EXCEPT !.y = @ + 1], gs.board) =>
            gs' = [gs EXCEPT !.piece.y = @ + 1]]_vars

\* C31 witness: a soft drop took the piece one row down, to the row above
\* its resting place, on a run without points.
C31_Witness ==
  /\ last = "softdrop"
  /\ Playing
  /\ gs.score = 0
  /\ gs.piece.y = (ROWS \div 2) - 1
  /\ ~collide([gs.piece EXCEPT !.y = @ + 1], gs.board)
\* C33: in every reachable state that is not game over, no occupied cell of
\* the active piece coincides with an occupied board cell or lies outside
\* the grid's columns or below its last row, the state right after a spawn
\* onto a tall stack included.
C33_PieceNeverOverlaps == ~gs.isGameOver => ~collide(gs.piece, gs.board)
\* Every occupied cell of piece p is on a row in [0, ROWS) and a column in
\* [0, COLS).
InGrid(p) ==
  \A dy \in 1..Len(p.shape) : \A dx \in 1..Len(p.shape[1]) :
    p.shape[dy][dx] # 0 =>
      /\ p.y + dy - 1 \in 0..(ROWS - 1)
      /\ p.x + dx - 1 \in 0..(COLS - 1)

\* C32: the engine never fails. In every reachable lock step the piece that
\* is merged has all its cells on rows in [0, 20) and columns in [0, 10),
\* and the number of rows cleared is between 0 and 4, so the board indexing
\* and the look-up in the score table are in range.
C32_EngineNeverFails ==
  [][Locks =>
       \A p \in {IF last' = "drop" THEN fall(gs).piece ELSE gs.piece} :
       \A m \in {merge(p, gs.board, gs.boardColors)} :
       \A n \in {clearLines(m.board, m.boardColors).linesCleared} :
         /\ InGrid(p)
         /\ ROWS = 20 /\ COLS = 10
         /\ n \in 0..4
         /\ n + 1 \in DOMAIN linePoints]_vars

\* C32 witness: a hard drop of two rows put the upright 4-long piece on the
\* floor, rows 16..19 of the last column, and completed all four rows.
C32_Witness ==
  /\ last = "drop"
  /\ gs.lines = 4
  /\ gs.score = 2 * 2 + linePoints[5]
  /\ gs.level = 1
  /\ CellsOf(gs.board) > 0
\* A gravity step of SpecLock put a new piece in play: it locked the old one.
Spawned == gs' # gs /\ ~gs.isGameOver /\ ~gs'.isGameOver /\ gs'.piece.y = 0

\* C35: every lock that is not a game over writes the piece's four occupied
\* cells into board cells that were empty, so a locked cell is never
\* overwritten, and the number of occupied board cells changes by exactly
\* 4 - 10 * (rows cleared).
C35_LockWritesEmptyCells ==
  [][Spawned =>
       \A p \in {IF last' = "drop" THEN fall(gs).piece ELSE gs.piece} :
       \A at \in {{c \in (1..ROWS) \X (1..COLS) : Covers(p, c[2] - 1, c[1] - 1)}} :
         /\ Cardinality(at) = 4
         /\ \A c \in at : gs.board[c[1]][c[2]] = 0
         /\ CellsOf(gs'.board) = CellsOf(gs.board) + 4 - 10 * (gs'.lines - gs.lines)]_vars

\* C35 witness: the interval locked SHAPES[2] in a slot of two rows and
\* completed both: 4 cells written, 20 removed.
C35_Witness ==
  /\ last = "tick"
  /\ gs.lines = 2
  /\ gs.score = linePoints[3]
  /\ gs.piece.y = 0
\* C36: after every completed lock step, and so in every reachable state,
\* the board has no fully occupied row.
C36_NoFullRow == FullRows(gs.board) = {}

\* C36 witness: the interval locked the upright 4-long piece into four
\* adjacent rows that it completed; all four are gone.
C36_Witness ==
  /\ last = "tick"
  /\ gs.lines = 4
  /\ gs.score = linePoints[5]
  /\ FullRows(gs.board) = {}
\* The controller pressed pause and nothing else, and the display has had
\* two receipts for every press: one from the relay, one from the channel.
PausesDoubled ==
  /\ sentLog # <<>>
  /\ \A i \in 1..Len(sentLog) : sentLog[i] = [from |-> "controller", action |-> "pause"]
  /\ Len(appliedLog) = 2 * Len(sentLog)

\* C34: when a single pause press reaches the same display over both the
\* relay and the local channel, the two toggles cancel: after both receipts
\* the run has the paused flag it had before the press (unpaused, in every
\* run followed here), so a running game is not left paused; in between, a
\* running game is paused.
C34_DoublePauseCancels ==
  /\ PausesDoubled => (~gs.isPaused /\ (gs.isRunning => timers # {}))
  /\ (sentLog = <<[from |-> "controller", action |-> "pause"]>>
        /\ Len(appliedLog) = 1 /\ ~gs.isGameOver) => (gs.isPaused = gs.isRunning)

\* C34 witness: one pause press on a running game, received from the channel
\* and from the relay; the game runs, unpaused, on a new interval.
C34_Witness ==
  /\ sentLog = <<[from |-> "controller", action |-> "pause"]>>
  /\ appliedLog = <<"pause", "pause">>
  /\ gs.isRunning
  /\ ~gs.isPaused
  /\ timers # {}
  /\ last \in {"control", "message"}
\* The tags handleAction has a case for.
HandledTags == {"start", "pause", "restart", "left", "right", "rotate", "drop", "softdrop"}

RECURSIVE Quarter(_, _)
Quarter(p, k) == IF k = 0 THEN p ELSE Quarter([p EXCEPT !.shape = rotated(@)], k - 1)

\* None of the four successive rotations of the active piece collides at
\* offset 0.
FreeTurns == \A k \in 1..4 : ~collide(Quarter(gs.piece, k), gs.board)

\* C39: for an active piece placed where none of its four successive
\* rotations collides at offset 0, rotate applied four times returns the
\* piece to its cell matrix and origin, each rotate turning the matrix once
\* at the same origin and leaving board, score, lines, level, flags and the
\* gravity timer unchanged.
C39_FourRotations ==
  (Playing /\ FreeTurns) =>
    \A d1 \in {rotate(Display)} : \A d2 \in {rotate(d1)} :
    \A d3 \in {rotate(d2)} : \A d4 \in {rotate(d3)} :
      /\ d4.gs.piece = gs.piece
      /\ d4 = Display
      /\ \A k \in 1..3 :
           <<d1, d2, d3>>[k] = [Display EXCEPT !.gs.piece = Quarter(gs.piece, k)]

\* C39 witness: SHAPES[3], three columns by two rows, has just been turned
\* upright in mid-air with room for every turn.
C39_Witness ==
  /\ last = "rotate"
  /\ Playing
  /\ FreeTurns
  /\ gs.piece.shape = rotated(SHAPES[3].shape)
  /\ Len(gs.piece.shape) = 3
\* C37: after start with no further player action, fair gravity ticks alone
\* eventually drive the run to game over: the pieces spawn and stack in the
\* centre columns without ever completing a row, so the run does not stay
\* running forever.
C37_GravityEndsRun ==
  /\ [](gs.lines = 0 /\ gs.score = 0)
  /\ [](\A r \in 1..ROWS : \A c \in 1..COLS : gs.board[r][c] # 0 => c - 1 \in 3..6)
  /\ <>[](gs.isGameOver /\ timers = {})

\* C37 witness: the interval has ended a run in which the stack reaches row
\* 1 and nothing was scored.
C37_Witness ==
  /\ last = "tick"
  /\ gs.isGameOver
  /\ gs.score = 0
  /\ gs.lines = 0
  /\ \E c \in 1..COLS : gs.board[2][c] # 0
====
